---- MODULE Spec2Model ----
(***************************************************************************)
(* Model of importer.py: the command-line tool that reads a spreadsheet,   *)
(* normalises its column labels, recreates the SQLite table produtos_bling *)
(* and inserts the spreadsheet's rows.                                     *)
(*                                                                         *)
(* Text that the program inspects character by character (file suffixes,   *)
(* column labels, column names) is a sequence of Unicode code points.      *)
(* Cell values are records tagged with their Python type.                  *)
(***************************************************************************)
EXTENDS Integers, Sequences, FiniteSets

VARIABLES
    pc,                 \* position of the running process
    arquivo,            \* the spreadsheet named by caminho_planilha
    dataframe,          \* importar_planilha: dataframe (columns, rows)
    colunas,            \* importar_planilha: colunas
    banco,              \* durable content of the database file
    banco_antes,        \* content of the database file when the run started
    conexao,            \* conexao: "none", "open" or "closed"
    em_transacao,       \* conexao.in_transaction
    pendentes,          \* rows inserted by the open transaction
    commit_feito,       \* conexao.commit() of line 109 was executed
    tentativas,         \* calls of importar_planilha made by this run
    stdout,             \* messages printed on sys.stdout
    stderr,             \* messages printed on sys.stderr
    exit_code,          \* exit status of the process, -1 while it runs
    excecao,            \* the exception in flight, "none" when there is none
    fluxos,             \* what the run's write met: "nao usados", "abertos"
                        \* (both standard streams open and accepting the
                        \* text) or "indisponiveis"
    interferencia,      \* another connection wrote to the file in this run
    colunas_brutas,     \* preparar_nomes_colunas: the argument colunas
    indice,             \* preparar_nomes_colunas: indice
    nomes_ajustados,    \* preparar_nomes_colunas: nomes_ajustados
    colunas_existentes  \* preparar_nomes_colunas: colunas_existentes

vars == <<pc, arquivo, dataframe, colunas, banco, banco_antes,
          conexao, em_transacao, pendentes, commit_feito, tentativas,
          stdout, stderr, exit_code, excecao, fluxos, interferencia,
          colunas_brutas, indice, nomes_ajustados, colunas_existentes>>

storeVars == <<banco, conexao, em_transacao, pendentes, commit_feito>>

outVars == <<stdout, stderr, exit_code, fluxos>>

nomesVars == <<colunas_brutas, indice, nomes_ajustados, colunas_existentes>>

(***************************************************************************)
(* Bounds of the model.                                                    *)
(***************************************************************************)
MaxRotulos == 3     \* labels given to preparar_nomes_colunas on its own
MaxCelulas == 2     \* columns, and cells in all, of an imported spreadsheet

(***************************************************************************)
(* Text.                                                                   *)
(***************************************************************************)
\* A character is its Unicode code point. For writing text in the model:
\* the printable ASCII characters of code points 32..95 and 97..126, in the
\* order of their code points.
Imprimiveis ==
    <<
       " ", "!", "\"", "#", "$", "%", "&", "'", "(", ")", "*", "+",
       ",", "-", ".", "/", "0", "1", "2", "3", "4", "5", "6", "7",
       "8", "9", ":", ";", "<", "=", ">", "?", "@", "A", "B", "C",
       "D", "E", "F", "G", "H", "I", "J", "K", "L", "M", "N", "O",
       "P", "Q", "R", "S", "T", "U", "V", "W", "X", "Y", "Z", "[",
       "\\", "]", "^", "_" >>

Minusculas ==
    <<
       "a", "b", "c", "d", "e", "f", "g", "h", "i", "j", "k", "l",
       "m", "n", "o", "p", "q", "r", "s", "t", "u", "v", "w", "x",
       "y", "z", "{", "|", "}", "~" >>

\* the code point of a printable ASCII character
Codigo(ch) ==
    IF \E i \in 1..Len(Imprimiveis) : Imprimiveis[i] = ch
    THEN 31 + (CHOOSE i \in 1..Len(Imprimiveis) : Imprimiveis[i] = ch)
    ELSE 96 + (CHOOSE i \in 1..Len(Minusculas) : Minusculas[i] = ch)

\* the text written with printable ASCII characters, as code points
Cod(s) == [i \in 1..Len(s) |-> Codigo(s[i])]

\* The characters str.strip() removes: those for which str.isspace() holds.
\* Tab, line feed, vertical tab, form feed, carriage return, the separators
\* U+001C..U+001F, space, U+0085, U+00A0, U+1680, U+2000..U+200A, U+2028,
\* U+2029, U+202F, U+205F and U+3000.
Whitespace ==
    (9..13) \cup (28..32) \cup {133, 160, 5760} \cup (8192..8202)
    \cup {8232, 8233, 8239, 8287, 12288}

\* str(n) of a natural number
RECURSIVE Str(_)
Str(n) == IF n < 10 THEN <<48 + n>>
          ELSE Str(n \div 10) \o <<48 + (n % 10)>>

RECURSIVE LStrip(_)
LStrip(s) == IF s # <<>> /\ Head(s) \in Whitespace THEN LStrip(Tail(s)) ELSE s

RECURSIVE RStrip(_)
RStrip(s) == IF s # <<>> /\ s[Len(s)] \in Whitespace
             THEN RStrip(SubSeq(s, 1, Len(s) - 1)) ELSE s

\* str.strip()
Strip(s) == RStrip(LStrip(s))

\* The characters of a file suffix in the model: Latin-1, on which
\* str.lower() maps character by character.
Latin1 == 0..255

\* str.lower() of one Latin-1 character: A-Z and the accented capitals
\* U+00C0..U+00D6 and U+00D8..U+00DE move 32 code points up
LowerChar(c) ==
    IF c \in (65..90) \cup (192..214) \cup (216..222) THEN c + 32 ELSE c

\* str.lower() of a Latin-1 text
Lower(s) == [i \in 1..Len(s) |-> LowerChar(s[i])]

\* SQLite compares names folding the ASCII letters A-Z only
SqliteLowerChar(c) == IF c \in 65..90 THEN c + 32 ELSE c

SqliteLower(s) == [i \in 1..Len(s) |-> SqliteLowerChar(s[i])]

(***************************************************************************)
(* preparar_nomes_colunas                                                  *)
(***************************************************************************)
NomePadraoBaseZero(i) == Cod(<<"c", "o", "l", "u", "n", "a", "_">>) \o Str(i - 1)

\* f"coluna_{indice}"
NomePadrao(i) == Cod(<<"c", "o", "l", "u", "n", "a", "_">>) \o Str(i)

\* f"{nome_original}_{contador}"
NomeComContador(nome_original, contador) ==
    nome_original \o Cod(<<"_">>) \o Str(contador)

NomeBaseSemStrip(i, coluna) ==
    IF coluna = <<>> THEN NomePadrao(i) ELSE coluna

\* lines 49-52: the trimmed label, or the placeholder when that is empty
NomeBase(i, coluna) ==
    LET nome == Strip(coluna) IN IF nome = <<>> THEN NomePadrao(i) ELSE nome

\* lines 56-58: the while loop, entered with the current nome and contador
RECURSIVE EnquantoExiste(_, _, _, _)
EnquantoExiste(nome, nome_original, contador, existentes) ==
    IF nome \in existentes
    THEN EnquantoExiste(NomeComContador(nome_original, contador + 1),
                        nome_original, contador + 1, existentes)
    ELSE nome

NomeUnicoUmaVez(nome, existentes) ==
    IF nome \in existentes THEN NomeComContador(nome, 2) ELSE nome

NomeUnicoDesdeZero(nome, existentes) == EnquantoExiste(nome, nome, 0, existentes)

\* lines 54-58: nome_original = nome; contador = 1; while ...
NomeUnico(nome, existentes) == EnquantoExiste(nome, nome, 1, existentes)

\* lines 49-58: the name given to the label coluna at 1-based position i
NomeAjustado(i, coluna, existentes) == NomeUnico(NomeBase(i, coluna), existentes)

(***************************************************************************)
(* Cell values, tagged with their Python type.                             *)
(***************************************************************************)
\* None, which sqlite3 binds as NULL and returns for NULL
Nulo == [t |-> "NoneType", v |-> "None"]

\* float("nan"), the marker pandas uses for a missing cell
NaN == [t |-> "float", v |-> "nan"]

\* a str
Texto(x) == [t |-> "str", v |-> x]

\* a float (Python's or numpy.float64, which is a float), by its text
Real(x) == [t |-> "float", v |-> x]

\* a numpy.int64, the cell of a column of integers, by its value
Int64(n) == [t |-> "numpy.int64", v |-> n]

\* a Python int, by its value
Inteiro(n) == [t |-> "int", v |-> n]

\* a bytes value, the content of a BLOB
Bytes(b) == [t |-> "bytes", v |-> b]

Digitos == <<"0", "1", "2", "3", "4", "5", "6", "7", "8", "9">>

\* the decimal text of a natural number
RECURSIVE Decimal(_)
Decimal(n) == IF n < 10 THEN Digitos[n + 1]
              ELSE Decimal(n \div 10) \o Digitos[(n % 10) + 1]

\* the k low bytes of a natural number, lowest first
RECURSIVE LittleEndian(_, _)
LittleEndian(n, k) ==
    IF k = 0 THEN <<>> ELSE <<n % 256>> \o LittleEndian(n \div 256, k - 1)

\* The dtype pandas gives column j of the rows: int64 when every cell is an
\* integer, float64 when every cell is a float (NaN is one), else object.
DType(linhas, j) ==
    IF \A i \in 1..Len(linhas) : linhas[i][j].t = "numpy.int64" THEN "int64"
    ELSE IF \A i \in 1..Len(linhas) : linhas[i][j].t = "float" THEN "float64"
    ELSE "object"

DTypes(linhas) ==
    IF linhas = <<>> THEN {}
    ELSE {DType(linhas, j) : j \in 1..Len(linhas[1])}

\* Line 95, dados.to_numpy(): one array of the common dtype of the columns.
\* Columns of integers alone stay numpy.int64; integers beside floats
\* become floats; beside an object column every cell becomes a Python
\* object, an integer a Python int.
ToNumpyCell(dtypes, valor) ==
    IF valor.t # "numpy.int64" THEN valor
    ELSE IF dtypes = {"int64"} THEN valor
    ELSE IF "object" \notin dtypes THEN Real(Decimal(valor.v) \o ".0")
    ELSE Inteiro(valor.v)

ToNumpy(linhas) ==
    [i \in 1..Len(linhas) |->
        [j \in 1..Len(linhas[i]) |-> ToNumpyCell(DTypes(linhas), linhas[i][j])]]

\* pd.isna(valor), line 94
pd_isna(valor) == valor = NaN \/ valor = Nulo

\* line 94: None if pd.isna(valor) else valor
Parametro(valor) == IF pd_isna(valor) THEN Nulo ELSE valor

\* lines 93-96: one list of parameters per row of dados.to_numpy()
Valores(dados) ==
    LET linhas == ToNumpy(dados)
    IN [i \in 1..Len(linhas) |->
           [j \in 1..Len(linhas[i]) |-> Parametro(linhas[i][j])]]

\* What a column declared TEXT (line 80) holds for a bound parameter. None
\* and a NaN float are bound as NULL. A str is bound as text. A float and a
\* Python int are bound as numbers, which the column turns into their text.
\* A numpy.int64 is no Python int: sqlite3 binds it through the buffer
\* protocol as a BLOB of its eight bytes, which the column keeps.
ColunaTexto(valor) ==
    IF valor = Nulo \/ valor = NaN THEN Nulo
    ELSE IF valor.t = "float" THEN Texto(valor.v)
    ELSE IF valor.t = "int" THEN Texto(Decimal(valor.v))
    ELSE IF valor.t = "numpy.int64" THEN Bytes(LittleEndian(valor.v, 8))
    ELSE valor

LinhaGravada(parametros) ==
    [j \in 1..Len(parametros) |-> ColunaTexto(parametros[j])]

(***************************************************************************)
(* SQL identifiers and the table.                                          *)
(***************************************************************************)
Aspas == 34

\* escapar_identificador: every double quote is doubled
RECURSIVE escapar_identificador(_)
escapar_identificador(s) ==
    IF s = <<>> THEN <<>>
    ELSE (IF Head(s) = Aspas THEN <<Aspas, Aspas>> ELSE <<Head(s)>>)
         \o escapar_identificador(Tail(s))

\* The name SQLite reads from the body of a quoted identifier.
RECURSIVE IdentificadorLido(_)
IdentificadorLido(s) ==
    IF s = <<>> THEN <<>>
    ELSE IF Len(s) >= 2 /\ s[1] = Aspas /\ s[2] = Aspas
         THEN <<Aspas>> \o IdentificadorLido(Tail(Tail(s)))
         ELSE <<Head(s)>> \o IdentificadorLido(Tail(s))

\* lines 79-81: the column names of the CREATE TABLE statement, as SQLite
\* reads them
ColunasSQL(nomes) ==
    [i \in 1..Len(nomes) |-> IdentificadorLido(escapar_identificador(nomes[i]))]

\* SQLite compares column names without regard to ASCII case and refuses a
\* CREATE TABLE that names a column twice.
ColunaRepetida(nomes) ==
    \E i, j \in 1..Len(nomes) : i < j /\ SqliteLower(nomes[i]) = SqliteLower(nomes[j])

NoTable == [existe |-> FALSE, colunas |-> <<>>, linhas |-> <<>>]

TabelaVazia(nomes) == [existe |-> TRUE, colunas |-> nomes, linhas |-> <<>>]

\* line 77: DROP TABLE IF EXISTS, when the database file serves it
drop_table_if_exists(tabela) == NoTable

\* The limits of SQLite as built: columns of a table, bytes of a statement.
SQLITE_MAX_COLUMN == 2000
SQLITE_MAX_SQL_LENGTH == 1000000000

\* the bytes the statement that records the new table in the schema adds
\* to the text of the CREATE TABLE it stores
SchemaUpdateOverhead == 131

\* the code points of a str that UTF-8 does not encode
Surrogates == 55296..57343

Apostrofo == 39

\* the bytes of one character in UTF-8
Utf8Len(c) == IF c < 128 THEN 1 ELSE IF c < 2048 THEN 2
              ELSE IF c < 65536 THEN 3 ELSE 4

\* the bytes of a text in UTF-8, summed by halves
RECURSIVE Utf8Bytes(_)
Utf8Bytes(s) ==
    IF s = <<>> THEN 0
    ELSE IF Len(s) = 1 THEN Utf8Len(s[1])
    ELSE Utf8Bytes(SubSeq(s, 1, Len(s) \div 2))
         + Utf8Bytes(SubSeq(s, Len(s) \div 2 + 1, Len(s)))

Ocorrencias(c, s) == Cardinality({k \in 1..Len(s) : s[k] = c})

\* the bytes of the column definitions "<name>" TEXT, summed by halves
RECURSIVE ColunasSQLBytes(_)
ColunasSQLBytes(nomes) ==
    IF nomes = <<>> THEN 0
    ELSE IF Len(nomes) = 1
    THEN 7 + Utf8Bytes(escapar_identificador(nomes[1]))
    ELSE ColunasSQLBytes(SubSeq(nomes, 1, Len(nomes) \div 2))
         + ColunasSQLBytes(SubSeq(nomes, Len(nomes) \div 2 + 1, Len(nomes)))

\* lines 79-82: the bytes of the statement
\* CREATE TABLE produtos_bling ("<name>" TEXT, "<name>" TEXT, ...)
CreateTableBytes(nomes) ==
    30 + ColunasSQLBytes(nomes) + (IF nomes = <<>> THEN 0 ELSE 2 * (Len(nomes) - 1))

\* the apostrophes in the statement, summed by halves
RECURSIVE ApostrofosSQL(_)
ApostrofosSQL(nomes) ==
    IF nomes = <<>> THEN 0
    ELSE IF Len(nomes) = 1 THEN Ocorrencias(Apostrofo, nomes[1])
    ELSE ApostrofosSQL(SubSeq(nomes, 1, Len(nomes) \div 2))
         + ApostrofosSQL(SubSeq(nomes, Len(nomes) \div 2 + 1, Len(nomes)))

\* What sqlite3 raises for the text of the statement before SQLite parses
\* it: the text must encode as UTF-8, fit the statement limit and hold no
\* U+0000.
ErroDoTexto(nomes) ==
    IF \E i \in 1..Len(nomes) : \E k \in 1..Len(nomes[i]) : nomes[i][k] \in Surrogates
    THEN "UnicodeEncodeError"
    ELSE IF CreateTableBytes(nomes) > SQLITE_MAX_SQL_LENGTH
    THEN "sqlite3.DataError"
    ELSE IF \E i \in 1..Len(nomes) : \E k \in 1..Len(nomes[i]) : nomes[i][k] = 0
    THEN "sqlite3.ProgrammingError"
    ELSE "none"

\* What SQLite raises for the column list: a syntax error for an empty
\* list, too many columns, a repeated column, and at the end a statement
\* too long to be recorded in the schema.
ErroDasColunas(nomes) ==
    IF nomes = <<>> \/ Len(nomes) > SQLITE_MAX_COLUMN
       \/ ColunaRepetida(ColunasSQL(nomes))
    THEN "sqlite3.OperationalError"
    ELSE IF CreateTableBytes(nomes) + ApostrofosSQL(nomes) + SchemaUpdateOverhead
            > SQLITE_MAX_SQL_LENGTH
    THEN "sqlite3.DataError"
    ELSE "none"

create_table_if_not_exists(tabela, nomes) ==
    IF ErroDoTexto(nomes) # "none"
    THEN [tabela |-> tabela, erro |-> ErroDoTexto(nomes)]
    ELSE IF tabela.existe
    THEN [tabela |-> tabela, erro |-> "none"]
    ELSE IF ErroDasColunas(nomes) # "none"
    THEN [tabela |-> tabela, erro |-> ErroDasColunas(nomes)]
    ELSE [tabela |-> TabelaVazia(ColunasSQL(nomes)), erro |-> "none"]

\* Line 82: CREATE TABLE, when the database file serves it. No transaction
\* is open, so an accepted statement takes effect in the file at once. It
\* is refused when the table exists ("table produtos_bling already
\* exists"). The result is the table left in the file and the error
\* raised, if any.
create_table(tabela, nomes) ==
    IF ErroDoTexto(nomes) # "none"
    THEN [tabela |-> tabela, erro |-> ErroDoTexto(nomes)]
    ELSE IF tabela.existe
    THEN [tabela |-> tabela, erro |-> "sqlite3.OperationalError"]
    ELSE IF ErroDasColunas(nomes) # "none"
    THEN [tabela |-> tabela, erro |-> ErroDasColunas(nomes)]
    ELSE [tabela |-> TabelaVazia(ColunasSQL(nomes)), erro |-> "none"]

criar_tabela_se_nao_existe(passo, tabela, nomes) ==
    IF passo = "DROP" THEN [tabela |-> tabela, erro |-> "none"]
    ELSE create_table_if_not_exists(tabela, nomes)

\* criar_tabela_produtos, lines 71-82, statement by statement: the table
\* left in the file and the error raised, if any, by the DROP of line 77 and
\* by the CREATE of line 82, when the database file serves them
criar_tabela_produtos(passo, tabela, nomes) ==
    IF passo = "DROP"
    THEN [tabela |-> drop_table_if_exists(tabela), erro |-> "none"]
    ELSE create_table(tabela, nomes)

(***************************************************************************)
(* read_planilha                                                           *)
(***************************************************************************)
SufixoCSV == Cod(<<".", "c", "s", "v">>)
SufixoXLS == Cod(<<".", "x", "l", "s">>)
SufixoXLSX == Cod(<<".", "x", "l", "s", "x">>)

\* lines 23-35: the parser chosen for the suffix, "none" when unsupported
Leitor(sufixo) ==
    IF Lower(sufixo) = SufixoCSV THEN "read_csv"
    ELSE IF Lower(sufixo) \in {SufixoXLS, SufixoXLSX} THEN "read_excel"
    ELSE "none"

DataFrameNuncaVazio(df) == FALSE

\* dataframe.empty, line 37: no row or no column
DataFrameEmpty(df) == Len(df.linhas) = 0 \/ Len(df.colunas) = 0

(***************************************************************************)
(* Inputs.                                                                 *)
(***************************************************************************)
SeqAte(S, n) == UNION {[1..k -> S] : k \in 0..n}

\* labels given to preparar_nomes_colunas when it is exercised on its own
Rotulos ==
    { <<>>, Cod(<<" ">>), Cod(<<"a">>), Cod(<<" ", "a">>), <<97, 9>>, <<10>>, <<97, 160>>, Cod(<<"x">>),
      Cod(<<"a", "_", "2">>), Cod(<<"a", "_", "3">>), Cod(<<"a", "_", "2", "_", "2">>),
      Cod(<<"c", "o", "l", "u", "n", "a", "_", "2">>),
      Cod(<<"c", "o", "l", "u", "n", "a", "_", "2", "_", "2">>) }

\* Labels of the columns of an imported spreadsheet. The parsers give every
\* column of a frame its own label (a repeated header is renamed a, a.1),
\* so the labels of a frame are distinct; a and A are distinct labels that
\* SQLite takes for the same column name.
RotulosPlanilha == { Cod(<<"a">>), Cod(<<"A">>), Cod(<<"b">>) }

\* the headers of n columns; the first column is labelled a
Cabecalhos(n) ==
    { c \in [1..n -> RotulosPlanilha] :
         /\ \A i, j \in 1..n : c[i] = c[j] => i = j
         /\ n > 0 => c[1] = Cod(<<"a">>) }

\* the cells of a column of k rows, by dtype: integers; floats, NaN for a
\* missing cell; or text with NaN for a missing cell
ColunasInt64(k) == [1..k -> {Int64(5)}]

ColunasFloat64(k) == [1..k -> {Real("2.5"), NaN}]

ColunasObject(k) ==
    { c \in [1..k -> {Texto("x"), NaN}] : \E i \in 1..k : c[i].t = "str" }

ColunasDeCelulas(k) == ColunasInt64(k) \cup ColunasFloat64(k) \cup ColunasObject(k)

\* the rows of a frame of n columns and k rows
Linhas(n, k) ==
    { [i \in 1..k |-> [j \in 1..n |-> cs[j][i]]] : cs \in [1..n -> ColunasDeCelulas(k)] }

Sufixos == { SufixoCSV, Cod(<<".", "X", "L", "S", "X">>), Cod(<<".", "t", "x", "t">>) }

\* the parsed content of a .csv file: a rectangular table of n columns and
\* at most MaxCelulas cells
PlanilhasCSV ==
    UNION { [sufixo : {SufixoCSV},
             colunas : Cabecalhos(n),
             linhas : UNION {Linhas(n, k) : k \in 0..(MaxCelulas \div n)}] :
            n \in 1..MaxCelulas }

\* the parsed content of a file with another suffix: one column and at most
\* one row
OutrasPlanilhas ==
    [sufixo : Sufixos \ {SufixoCSV},
     colunas : Cabecalhos(1),
     linhas : Linhas(1, 0) \cup Linhas(1, 1)]

Planilhas == PlanilhasCSV \cup OutrasPlanilhas

NoFile == [sufixo |-> <<>>, colunas |-> <<>>, linhas |-> <<>>]

NoFrame == [colunas |-> <<>>, linhas |-> <<>>]

\* what the database file may hold before the first run
BancosIniciais ==
    { NoTable,
      [existe |-> TRUE, colunas |-> << Cod(<<"i", "d">>) >>,
       linhas |-> << <<Texto("7")>> >>] }

\* the table holds a row another connection wrote
TemLinhaDeOutraConexao(tabela) ==
    \E i \in 1..Len(tabela.linhas) : tabela.linhas[i][1] = Texto("9")

\* What another connection writes: it creates the table when the file holds
\* none, and inserts a row into the table when it holds one.
EscritaDeOutraConexao(tabela) ==
    IF ~tabela.existe
    THEN [existe |-> TRUE, colunas |-> << Cod(<<"z">>), Cod(<<"w">>) >>,
          linhas |-> << <<Texto("9"), Nulo>> >>]
    ELSE [tabela EXCEPT
             !.linhas = Append(@, [j \in 1..Len(tabela.colunas) |-> Texto("9")])]

(***************************************************************************)
(* Initial states.                                                         *)
(***************************************************************************)
ProcessoNovo ==
    /\ arquivo = NoFile
    /\ dataframe = NoFrame
    /\ colunas = <<>>
    /\ conexao = "none"
    /\ em_transacao = FALSE
    /\ pendentes = <<>>
    /\ commit_feito = FALSE
    /\ tentativas = 0
    /\ stdout = <<>>
    /\ stderr = <<>>
    /\ exit_code = -1
    /\ excecao = "none"
    /\ fluxos = "nao usados"
    /\ interferencia = FALSE
    /\ indice = 1
    /\ nomes_ajustados = <<>>
    /\ colunas_existentes = {}

Init ==
    /\ pc = "main"
    /\ banco \in BancosIniciais
    /\ banco_antes = banco
    /\ colunas_brutas = <<>>
    /\ ProcessoNovo

\* preparar_nomes_colunas called on its own with any bounded list of labels
InitNomes ==
    /\ pc = "preparar"
    /\ banco = NoTable
    /\ banco_antes = banco
    /\ colunas_brutas \in SeqAte(Rotulos, MaxRotulos)
    /\ ProcessoNovo

(***************************************************************************)
(* main and importar_planilha, step by step.                               *)
(***************************************************************************)
Levantar(erro) ==
    /\ excecao' = erro
    /\ pc' = "erro"

\* What a standard stream of the process may be when main writes to it:
\* open; closed, and then sys.stdout or sys.stderr is None; full, and then
\* the text is lost; and, for stdout, open with an encoding that has ASCII
\* letters only. stderr writes what its encoding lacks as escapes.
EstadosStdout == {"aberto", "fechado", "cheio", "ascii"}

EstadosStderr == {"aberto", "fechado", "cheio"}

\* The streams are buffered, and text written to a full stream is lost
\* when the interpreter flushes at its end, or unbuffered
\* (PYTHONUNBUFFERED, -u), and the write itself fails.
Modos == {"com buffer", "sem buffer"}

\* the status of a process that ends with status c: when buffered text
\* was lost at the final flush the interpreter ends with 120 instead
Status(c, perdido, modo) == IF perdido /\ modo = "com buffer" THEN 120 ELSE c

\* An exception that leaves main: the interpreter writes the traceback on
\* stderr and ends with status 1.
Falha(se, modo) ==
    [out |-> <<>>,
     err |-> IF se = "aberto" THEN <<"Traceback">> ELSE <<>>,
     code |-> Status(1, se = "cheio", modo),
     erro |-> "erro ao imprimir"]

\* parse_args on a command line without the file, line 127: argparse
\* writes the usage and the error on stderr and ends with status 2; where
\* sys.stderr is None the usage line goes to sys.stdout. argparse ignores
\* a write that fails.
ImprimirUso(so, se, modo) ==
    [out |-> IF se = "fechado" /\ so \in {"aberto", "ascii"}
             THEN <<"usage">> ELSE <<>>,
     err |-> IF se = "aberto" THEN <<"usage">> ELSE <<>>,
     code |-> Status(2, se = "cheio" \/ (se = "fechado" /\ so = "cheio"), modo),
     erro |-> "none"]

\* parse_args on -h, line 127: argparse writes the help on stdout and ends
\* with status 0; where sys.stdout is None the help goes to sys.stderr.
\* argparse ignores a write that fails on a full stream; buffered text
\* lost on stdout is reported on stderr by the interpreter. The help of
\* lines 119 and 125 has letters outside ASCII: a stdout that cannot encode
\* them raises, outside the try of line 133.
ImprimirAjuda(so, se, modo) ==
    IF so = "ascii" THEN Falha(se, modo)
    ELSE [out |-> IF so = "aberto" THEN <<"help">> ELSE <<>>,
          err |-> IF so = "fechado" /\ se = "aberto" THEN <<"help">>
                  ELSE IF so = "cheio" /\ se = "aberto" /\ modo = "com buffer"
                       THEN <<"Exception ignored">>
                  ELSE <<>>,
          code |-> Status(0, so = "cheio" \/ (so = "fechado" /\ se = "cheio"), modo),
          erro |-> "none"]

\* whether the text of the exception has ASCII letters only: the messages
\* of lines 34 and 38 have not, the others may or may not
MensagemASCII(erro) ==
    IF erro \in {"ValueError: formato", "ValueError: vazia"}
    THEN {FALSE} ELSE BOOLEAN

\* Line 136: print(..., file=sys.stderr). Where sys.stderr is None print
\* writes on sys.stdout; a stdout that cannot encode the message, or an
\* unbuffered write to a full stream, raises and nothing is printed. Line
\* 137 or the exception ends the process with status 1.
ImprimirErro(so, se, ascii, modo) ==
    [out |-> IF se = "fechado" /\ (so = "aberto" \/ (so = "ascii" /\ ascii))
             THEN <<"Erro ao importar planilha">> ELSE <<>>,
     err |-> IF se = "aberto" THEN <<"Erro ao importar planilha">> ELSE <<>>,
     code |-> Status(1, se = "cheio" \/ (se = "fechado" /\ so = "cheio"), modo),
     erro |-> "none"]

\* Lines 139-142: print on sys.stdout, outside the try of line 133. Where
\* sys.stdout is None nothing is printed. On a full stdout the message is
\* lost: buffered, the interpreter reports that on stderr at its end and
\* the status is 120; unbuffered, print raises. A stdout that cannot encode
\* the message raises. The process ends with status 0 unless the print
\* raised or the text was lost.
ImprimirSucesso(so, se, modo) ==
    IF so = "ascii" \/ (so = "cheio" /\ modo = "sem buffer") THEN Falha(se, modo)
    ELSE [out |-> IF so = "aberto"
                  THEN <<"Importacao concluida com sucesso!">> ELSE <<>>,
          err |-> IF so = "cheio" /\ se = "aberto"
                  THEN <<"Exception ignored">> ELSE <<>>,
          code |-> Status(0, so = "cheio", modo),
          erro |-> "none"]

\* the process ends with what the write r gave on the streams so and se
Terminar(r, so, se) ==
    /\ stdout' = stdout \o r.out
    /\ stderr' = stderr \o r.err
    /\ exit_code' = r.code
    /\ excecao' = IF r.erro = "none" THEN excecao ELSE r.erro
    /\ fluxos' = IF so = "aberto" /\ se = "aberto"
                 THEN "abertos" ELSE "indisponiveis"
    /\ pc' = "fim"

\* line 131: parse_args. It returns the arguments of an accepted command
\* line; argparse ends the process on a command line without the file
\* (usage, status 2) and on -h/--help (help, status 0).
ParseArgs ==
    /\ pc = "main"
    /\ \/ /\ \E f \in Planilhas : arquivo' = f
          /\ pc' = "importar"
          /\ UNCHANGED <<outVars, excecao>>
       \/ /\ \E so \in EstadosStdout, se \in EstadosStderr, modo \in Modos :
                Terminar(ImprimirUso(so, se, modo), so, se)
          /\ UNCHANGED arquivo
       \/ /\ \E so \in EstadosStdout, se \in EstadosStderr, modo \in Modos :
                Terminar(ImprimirAjuda(so, se, modo), so, se)
          /\ UNCHANGED arquivo
    /\ UNCHANGED <<dataframe, colunas, banco_antes, interferencia, tentativas>>
    /\ UNCHANGED storeVars
    /\ UNCHANGED nomesVars

\* lines 134 and 101: importar_planilha is called and runs read_planilha
\* (lines 18-40); the parser itself may fail on the file
ReadPlanilha ==
    /\ pc = "importar"
    /\ tentativas' = tentativas + 1
    /\ LET lido == [colunas |-> arquivo.colunas, linhas |-> arquivo.linhas]
       IN \/ /\ Leitor(arquivo.sufixo) = "none"
             /\ Levantar("ValueError: formato")
             /\ UNCHANGED <<dataframe, colunas_brutas>>
          \/ /\ Leitor(arquivo.sufixo) # "none"
             /\ Levantar("erro de leitura")
             /\ UNCHANGED <<dataframe, colunas_brutas>>
          \/ /\ Leitor(arquivo.sufixo) # "none"
             /\ DataFrameEmpty(lido)
             /\ Levantar("ValueError: vazia")
             /\ UNCHANGED <<dataframe, colunas_brutas>>
          \/ /\ Leitor(arquivo.sufixo) # "none"
             /\ ~DataFrameEmpty(lido)
             /\ dataframe' = lido
             /\ colunas_brutas' = lido.colunas
             /\ pc' = "preparar"
             /\ UNCHANGED excecao
    /\ UNCHANGED <<arquivo, colunas, banco_antes, interferencia,
                   indice, nomes_ajustados, colunas_existentes>>
    /\ UNCHANGED storeVars
    /\ UNCHANGED outVars

\* lines 48-61: one iteration of the for loop of preparar_nomes_colunas
IterarNomes ==
    /\ pc = "preparar"
    /\ indice <= Len(colunas_brutas)
    /\ LET nome == NomeAjustado(indice, colunas_brutas[indice], colunas_existentes)
       IN /\ colunas_existentes' = colunas_existentes \cup {nome}
          /\ nomes_ajustados' = Append(nomes_ajustados, nome)
    /\ indice' = indice + 1
    /\ UNCHANGED <<pc, arquivo, dataframe, colunas, banco_antes, interferencia,
                   tentativas, excecao, colunas_brutas>>
    /\ UNCHANGED storeVars
    /\ UNCHANGED outVars

\* line 63 and lines 102-103: the names are returned and become the columns
RetornarNomes ==
    /\ pc = "preparar"
    /\ indice > Len(colunas_brutas)
    /\ colunas' = nomes_ajustados
    /\ dataframe' = [dataframe EXCEPT !.colunas = nomes_ajustados]
    /\ pc' = "conectar"
    /\ UNCHANGED <<arquivo, banco_antes, interferencia, tentativas, excecao>>
    /\ UNCHANGED storeVars
    /\ UNCHANGED outVars
    /\ UNCHANGED nomesVars

\* line 105: sqlite3.connect, which may fail to open the file
Conectar ==
    /\ pc = "conectar"
    /\ \/ /\ conexao' = "open"
          /\ pc' = "criar"
          /\ UNCHANGED excecao
       \/ /\ Levantar("sqlite3.OperationalError")
          /\ UNCHANGED conexao
    /\ UNCHANGED <<arquivo, dataframe, colunas, banco, banco_antes, interferencia,
                   em_transacao, pendentes, commit_feito, tentativas>>
    /\ UNCHANGED outVars
    /\ UNCHANGED nomesVars

\* Lines 107 and 77: the DROP TABLE of criar_tabela_produtos. No
\* transaction is open, so the table is gone from the file, and the file is
\* unlocked again, when the statement returns. The database file may refuse
\* the statement, which leaves it as it is: a locked file raises
\* sqlite3.OperationalError, a file that is not a database
\* sqlite3.DatabaseError.
CriarTabelaProdutosDrop ==
    /\ pc = "criar"
    /\ \/ /\ banco' = criar_tabela_produtos("DROP", banco, colunas).tabela
          /\ pc' = "criar_create"
          /\ UNCHANGED excecao
       \/ /\ excecao' \in {"sqlite3.OperationalError", "sqlite3.DatabaseError"}
          /\ pc' = "sair"
          /\ UNCHANGED banco
    /\ UNCHANGED <<arquivo, dataframe, colunas, banco_antes, interferencia, conexao,
                   em_transacao, pendentes, commit_feito, tentativas>>
    /\ UNCHANGED outVars
    /\ UNCHANGED nomesVars

\* The connection of line 105 holds a lock on the file only while its
\* transaction has written a row, from the first INSERT of executemany to
\* the commit or the rollback. Before line 77, between line 77 and line 82,
\* between line 82 and line 97, after an executemany that failed at its
\* first row and after the commit another connection may write to the
\* file; it writes once in a run, and to a table that holds no row of its
\* own.
OutraConexao ==
    /\ pc \in {"criar", "criar_create", "inserir", "sair"}
    /\ conexao = "open"
    /\ pendentes = <<>>
    /\ ~interferencia
    /\ ~TemLinhaDeOutraConexao(banco)
    /\ banco' = EscritaDeOutraConexao(banco)
    /\ interferencia' = TRUE
    /\ UNCHANGED <<pc, arquivo, dataframe, colunas, banco_antes, conexao,
                   em_transacao, pendentes, commit_feito, tentativas, excecao>>
    /\ UNCHANGED outVars
    /\ UNCHANGED nomesVars

\* Lines 79-82: the CREATE TABLE of criar_tabela_produtos. The database
\* file may also refuse it (locked), which leaves the file as it is.
CriarTabelaProdutosCreate ==
    /\ pc = "criar_create"
    /\ \/ LET r == criar_tabela_produtos("CREATE", banco, colunas)
          IN /\ banco' = r.tabela
             /\ excecao' = r.erro
             /\ pc' = IF r.erro = "none" THEN "inserir" ELSE "sair"
       \/ /\ UNCHANGED banco
          /\ excecao' = "sqlite3.OperationalError"
          /\ pc' = "sair"
    /\ UNCHANGED <<arquivo, dataframe, colunas, banco_antes, interferencia, conexao,
                   em_transacao, pendentes, commit_feito, tentativas>>
    /\ UNCHANGED outVars
    /\ UNCHANGED nomesVars

\* line 108: inserir_registros. executemany opens a transaction and inserts
\* the rows one after the other; it may raise after some of them.
InserirRegistros ==
    /\ pc = "inserir"
    /\ em_transacao' = TRUE
    /\ LET valores == Valores(dataframe.linhas)
           gravadas == [i \in 1..Len(valores) |-> LinhaGravada(valores[i])]
       IN \/ /\ pendentes' = gravadas
             /\ pc' = "commit"
             /\ UNCHANGED excecao
          \/ \E k \in 0..(Len(gravadas) - 1) :
                /\ pendentes' = SubSeq(gravadas, 1, k)
                /\ excecao' = "sqlite3.Error"
                /\ pc' = "sair"
    /\ UNCHANGED <<arquivo, dataframe, colunas, banco, banco_antes, interferencia,
                   conexao, commit_feito, tentativas>>
    /\ UNCHANGED outVars
    /\ UNCHANGED nomesVars

\* line 109: conexao.commit(), which writes the file and may be refused
\* (database is locked); the transaction then stays open
Commit ==
    /\ pc = "commit"
    /\ \/ /\ banco' = [banco EXCEPT !.linhas = @ \o pendentes]
          /\ pendentes' = <<>>
          /\ em_transacao' = FALSE
          /\ commit_feito' = TRUE
          /\ UNCHANGED excecao
       \/ /\ excecao' = "sqlite3.OperationalError"
          /\ UNCHANGED <<banco, pendentes, em_transacao, commit_feito>>
    /\ pc' = "sair"
    /\ UNCHANGED <<arquivo, dataframe, colunas, banco_antes, interferencia, conexao,
                   tentativas>>
    /\ UNCHANGED outVars
    /\ UNCHANGED nomesVars

\* The end of the with block of line 105. The connection's __exit__ commits
\* when the block ended normally and rolls back when it raised; it does not
\* close the connection. After a normal exit importar_planilha returns and
\* drops its reference to the connection, which the interpreter may then
\* finalise; after an exception the traceback keeps the frame alive.
SairDoWith ==
    /\ pc = "sair"
    /\ \/ /\ excecao = "none"
          /\ banco' = [banco EXCEPT !.linhas = @ \o pendentes]
          /\ conexao' \in {"open", "closed"}
          /\ pc' = "retornou"
       \/ /\ excecao # "none"
          /\ UNCHANGED <<banco, conexao>>
          /\ pc' = "erro"
    /\ pendentes' = <<>>
    /\ em_transacao' = FALSE
    /\ UNCHANGED <<arquivo, dataframe, colunas, banco_antes, interferencia,
                   commit_feito, tentativas, excecao>>
    /\ UNCHANGED outVars
    /\ UNCHANGED nomesVars

MainErroSemSair ==
    /\ pc = "erro"
    /\ \E so \in EstadosStdout, se \in EstadosStderr, modo \in Modos :
          \E ascii \in MensagemASCII(excecao) :
             LET r == ImprimirErro(so, se, ascii, modo)
             IN /\ stdout' = stdout \o r.out
                /\ stderr' = stderr \o r.err
                /\ fluxos' = IF so = "aberto" /\ se = "aberto"
                             THEN "abertos" ELSE "indisponiveis"
    /\ pc' = "retornou"
    /\ UNCHANGED <<arquivo, dataframe, colunas, banco_antes, interferencia,
                   tentativas, excecao, exit_code>>
    /\ UNCHANGED storeVars
    /\ UNCHANGED nomesVars

\* lines 135-137: the except clause of main
MainErro ==
    /\ pc = "erro"
    /\ \E so \in EstadosStdout, se \in EstadosStderr, modo \in Modos :
          \E ascii \in MensagemASCII(excecao) :
             Terminar(ImprimirErro(so, se, ascii, modo), so, se)
    /\ UNCHANGED <<arquivo, dataframe, colunas, banco_antes, interferencia, tentativas>>
    /\ UNCHANGED storeVars
    /\ UNCHANGED nomesVars

\* lines 139-142: the success message, after which the process ends;
\* resolve() may raise as well
MainSucesso ==
    /\ pc = "retornou"
    /\ \E so \in EstadosStdout, se \in EstadosStderr, modo \in Modos :
          \E r \in {ImprimirSucesso(so, se, modo), Falha(se, modo)} :
             Terminar(r, so, se)
    /\ UNCHANGED <<arquivo, dataframe, colunas, banco_antes, interferencia, tentativas>>
    /\ UNCHANGED storeVars
    /\ UNCHANGED nomesVars

\* lines 145-146: the tool is started again on the same database file
NovaExecucao ==
    /\ pc = "fim"
    /\ pc' = "main"
    /\ banco_antes' = banco
    /\ colunas_brutas' = <<>>
    /\ arquivo' = NoFile
    /\ dataframe' = NoFrame
    /\ colunas' = <<>>
    /\ conexao' = "none"
    /\ em_transacao' = FALSE
    /\ pendentes' = <<>>
    /\ commit_feito' = FALSE
    /\ tentativas' = 0
    /\ stdout' = <<>>
    /\ stderr' = <<>>
    /\ exit_code' = -1
    /\ excecao' = "none"
    /\ fluxos' = "nao usados"
    /\ interferencia' = FALSE
    /\ indice' = 1
    /\ nomes_ajustados' = <<>>
    /\ colunas_existentes' = {}
    /\ UNCHANGED banco

Next ==
    \/ ParseArgs
    \/ ReadPlanilha
    \/ IterarNomes
    \/ RetornarNomes
    \/ Conectar
    \/ CriarTabelaProdutosDrop
    \/ OutraConexao
    \/ CriarTabelaProdutosCreate
    \/ InserirRegistros
    \/ Commit
    \/ SairDoWith
    \/ MainErro
    \/ MainSucesso
    \/ NovaExecucao

Spec == Init /\ [][Next]_vars

NextNomes ==
    \/ IterarNomes
    \/ RetornarNomes

SpecNomes == InitNomes /\ [][NextNomes]_vars

(***************************************************************************)
(* Properties of preparar_nomes_colunas, checked under SpecNomes.          *)
(***************************************************************************)
Retornou == pc = "conectar"

\* the names assigned before position i in this pass
Antes(i) == {nomes_ajustados[j] : j \in 1..(i - 1)}

Aparado(i) == Strip(colunas_brutas[i])

\* C1: the function returns as many names as it was given labels, every
\* name is non-empty and no two names are the same string; the same holds
\* of the names assigned so far at every point of the loop.
C1_NomesUnicosNaoVazios ==
    /\ Len(nomes_ajustados) = indice - 1
    /\ \A i \in 1..Len(nomes_ajustados) : nomes_ajustados[i] # <<>>
    /\ \A i, j \in 1..Len(nomes_ajustados) :
          i # j => nomes_ajustados[i] # nomes_ajustados[j]
    /\ Retornou =>
          /\ Len(colunas) = Len(colunas_brutas)
          /\ colunas = nomes_ajustados

C1_Witness ==
    /\ Retornou
    /\ Len(colunas) = 3
    /\ \E i, j \in 1..3 : i < j /\ Aparado(i) = Aparado(j)
    /\ \E i \in 1..3 : Aparado(i) = <<>>

\* C6: a label whose base name is not assigned earlier in the pass keeps
\* it; otherwise it gets base_k for the least k >= 2 with base_k not
\* assigned earlier. ["a", "a", "a"] gives ["a", "a_2", "a_3"].
C6_MenorSufixoLivre ==
    /\ \A i \in 1..Len(nomes_ajustados) :
          LET base == IF Aparado(i) = <<>> THEN NomePadrao(i) ELSE Aparado(i)
              sufixado(k) == base \o Cod(<<"_">>) \o Str(k)
          IN IF base \notin Antes(i)
             THEN nomes_ajustados[i] = base
             ELSE \E k \in 2..(i + 1) :
                     /\ nomes_ajustados[i] = sufixado(k)
                     /\ sufixado(k) \notin Antes(i)
                     /\ \A m \in 2..(k - 1) : sufixado(m) \in Antes(i)
    /\ (Retornou /\ colunas_brutas = << Cod(<<"a">>), Cod(<<"a">>), Cod(<<"a">>) >>) =>
          colunas = << Cod(<<"a">>), Cod(<<"a", "_", "2">>), Cod(<<"a", "_", "3">>) >>

C6_Witness ==
    /\ Retornou
    /\ colunas_brutas = << Cod(<<"a">>), Cod(<<"a", "_", "2">>), Cod(<<"a">>) >>
    /\ colunas[3] = Cod(<<"a", "_", "3">>)

\* C7 as stated: a blank label at position p becomes column_<p>, and
\* ["", "x", ""] gives ["column_1", "x", "column_3"].
C7_ColumnPlaceholder ==
    /\ \A p \in 1..Len(nomes_ajustados) :
          Aparado(p) = <<>> =>
             nomes_ajustados[p] = Cod(<<"c", "o", "l", "u", "m", "n", "_">>) \o Str(p)
    /\ (Retornou /\ colunas_brutas = << <<>>, Cod(<<"x">>), <<>> >>) =>
          colunas = << Cod(<<"c", "o", "l", "u", "m", "n", "_", "1">>), Cod(<<"x">>),
                       Cod(<<"c", "o", "l", "u", "m", "n", "_", "3">>) >>

\* C7 amended: a blank label at position p takes the base name coluna_<p>;
\* it is returned as such unless an earlier name of the pass already equals
\* it, and then it is coluna_<p> followed by a collision suffix.
\* ["", "x", ""] gives ["coluna_1", "x", "coluna_3"].
C7_ColunaPlaceholder ==
    /\ \A p \in 1..Len(nomes_ajustados) :
          Aparado(p) = <<>> =>
             LET ph == Cod(<<"c", "o", "l", "u", "n", "a", "_">>) \o Str(p)
                 nome == nomes_ajustados[p]
             IN /\ ph \notin Antes(p) => nome = ph
                /\ ph \in Antes(p) =>
                      /\ Len(nome) > Len(ph) + 1
                      /\ SubSeq(nome, 1, Len(ph) + 1) = ph \o Cod(<<"_">>)
    /\ (Retornou /\ colunas_brutas = << <<>>, Cod(<<"x">>), <<>> >>) =>
          colunas = << Cod(<<"c", "o", "l", "u", "n", "a", "_", "1">>), Cod(<<"x">>),
                       Cod(<<"c", "o", "l", "u", "n", "a", "_", "3">>) >>

C7_Witness ==
    /\ Retornou
    /\ colunas_brutas = << <<>>, Cod(<<"x">>), <<>> >>
    /\ colunas[3] = Cod(<<"c", "o", "l", "u", "n", "a", "_", "3">>)

SemRotuloEmBranco == \A i \in 1..Len(colunas_brutas) : Aparado(i) # <<>>

SaidaAparada ==
    colunas = [i \in 1..Len(colunas_brutas) |-> Aparado(i)]

\* C8 as stated: with no blank label and no two equal labels the result is
\* the sequence of trimmed labels.
C8_SemRotuloDuplicado ==
    ( /\ Retornou
      /\ SemRotuloEmBranco
      /\ \A i, j \in 1..Len(colunas_brutas) :
            i # j => colunas_brutas[i] # colunas_brutas[j] )
    => SaidaAparada

\* C8 amended: with no blank label and no two labels that are equal after
\* trimming, the result is the sequence of trimmed labels.
C8_SemDuplicadoAparado ==
    ( /\ Retornou
      /\ SemRotuloEmBranco
      /\ \A i, j \in 1..Len(colunas_brutas) : i # j => Aparado(i) # Aparado(j) )
    => SaidaAparada

C8_Witness ==
    /\ Retornou
    /\ SemRotuloEmBranco
    /\ \A i, j \in 1..Len(colunas_brutas) : i # j => Aparado(i) # Aparado(j)
    /\ Len(colunas_brutas) = 3
    /\ \E i \in 1..3 : Aparado(i) # colunas_brutas[i]
    /\ SaidaAparada

(***************************************************************************)
(* Properties of the import, checked under Spec.                           *)
(***************************************************************************)
Terminou == pc = "fim"

MensagemErro == <<"Erro ao importar planilha">>

MensagemSucesso == <<"Importacao concluida com sucesso!">>

\* C2 as stated: a run in which importar_planilha failed, with no other
\* connection at work, leaves the database file as it was when the run
\* started.
C2_FalhaNaoAlteraBanco ==
    (Terminou /\ excecao \notin {"none", "erro ao imprimir"} /\ ~interferencia)
    => banco = banco_antes

\* the file is rejected by read_planilha: unsupported suffix or no data row
ArquivoRejeitado ==
    /\ arquivo # NoFile
    /\ Leitor(arquivo.sufixo) = "none" \/ Len(arquivo.linhas) = 0

\* C3: a file with an unsupported suffix or without data rows fails in the
\* read phase: the run never gets past read_planilha, opens no connection,
\* leaves the database file as it was and ends with an error.
C3_RejeicaoSemEfeito ==
    ArquivoRejeitado =>
       /\ pc \in {"importar", "erro", "fim"}
       /\ conexao = "none"
       /\ ~em_transacao
       /\ pendentes = <<>>
       /\ banco = banco_antes
       /\ pc \in {"erro", "fim"} => excecao \in {"ValueError: formato",
                                                 "ValueError: vazia",
                                                 "erro de leitura"}
       /\ Terminou =>
             /\ exit_code # 0
             /\ stdout # MensagemSucesso
             /\ fluxos = "abertos" =>
                   exit_code = 1 /\ stderr = MensagemErro /\ stdout = <<>>

C3_Witness ==
    /\ Terminou
    /\ Leitor(arquivo.sufixo) = "read_csv"
    /\ arquivo.colunas # <<>>
    /\ arquivo.linhas = <<>>
    /\ excecao = "ValueError: vazia"
    /\ banco.existe
    /\ banco.linhas # <<>>

\* What the table returns for the cell valor of the file f: NULL for a
\* missing cell, a text as it is, a float as its text. An integer comes
\* back as the eight bytes of a numpy.int64 when every cell of the file is
\* an integer, as the text of a Python int when the file has a text cell,
\* and else as the text of the float it was turned into.
CelulaEsperada(f, valor) ==
    LET celulas == {f.linhas[i][j] : i \in 1..Len(f.linhas), j \in 1..Len(f.colunas)}
    IN IF valor = NaN THEN Nulo
       ELSE IF valor.t = "str" THEN valor
       ELSE IF valor.t = "float" THEN Texto(valor.v)
       ELSE IF \A c \in celulas : c.t = "numpy.int64"
            THEN Bytes(<<valor.v % 256>> \o [k \in 1..7 |-> (valor.v \div 256) % 256])
       ELSE IF \E c \in celulas : c.t = "str" THEN Texto(Decimal(valor.v))
       ELSE Texto(Decimal(valor.v) \o ".0")

LinhasEsperadas(f) ==
    [i \in 1..Len(f.linhas) |->
        [j \in 1..Len(f.linhas[i]) |-> CelulaEsperada(f, f.linhas[i][j])]]

\* the header preparar_nomes_colunas gives for the labels cs
RECURSIVE CabecalhoDe(_, _, _)
CabecalhoDe(cs, i, feitos) ==
    IF i > Len(cs) THEN feitos
    ELSE CabecalhoDe(cs, i + 1,
             Append(feitos, NomeAjustado(i, cs[i], {feitos[j] : j \in 1..Len(feitos)})))

\* the table that holds the content of the file f and nothing else
TabelaDoArquivo(f) ==
    [existe |-> TRUE,
     colunas |-> CabecalhoDe(f.colunas, 1, <<>>),
     linhas |-> LinhasEsperadas(f)]

\* C4 as stated: when an import has committed and returned, the table is
\* the one that holds the header and the rows of this run's file and
\* nothing else, whatever table the run found: importing a file again
\* leaves the table the first import left, and no row of an earlier import
\* survives.
C4_TabelaSubstituida ==
    pc = "retornou" =>
       /\ banco = TabelaDoArquivo(arquivo)
       /\ Len(banco.linhas) = Len(arquivo.linhas)

\* C4 amended: when an import has committed and returned and no other
\* connection has written to the database file during the run, the table is
\* the one that holds the header and the rows of this run's file and
\* nothing else, whatever table the run found; a run that found the table
\* of the same file leaves the table it found.
C4_SubstituidaSemOutraConexao ==
    (pc = "retornou" /\ ~interferencia) =>
       /\ banco = TabelaDoArquivo(arquivo)
       /\ Len(banco.linhas) = Len(arquivo.linhas)
       /\ banco_antes = TabelaDoArquivo(arquivo) => banco = banco_antes

\* the run found the table an earlier import of the same two columns and
\* one row had left
C4_Witness ==
    /\ pc = "retornou"
    /\ ~interferencia
    /\ arquivo.colunas = << Cod(<<"a">>), Cod(<<"b">>) >>
    /\ Len(arquivo.linhas) = 1
    /\ banco_antes = TabelaDoArquivo(arquivo)
    /\ banco = banco_antes

\* C5 as stated: once importar_planilha has been left, by return or by an
\* exception, a connection it opened is closed.
C5_ConexaoFechada ==
    (pc \in {"retornou", "erro", "fim"} /\ conexao # "none") => conexao = "closed"

\* C9 as stated: when inserir_registros has inserted the rows, there is one
\* row for every row of the frame, each with as many values as the table
\* has columns and the header has names; a row has NULL where the source
\* cell is a missing marker, and elsewhere the source cell unchanged: the
\* text itself, or the number as its text.
C9_ValoresInalterados ==
    pc = "commit" =>
       /\ Len(pendentes) = Len(dataframe.linhas)
       /\ Len(colunas) = Len(banco.colunas)
       /\ \A i \in 1..Len(pendentes) :
             /\ Len(pendentes[i]) = Len(banco.colunas)
             /\ \A j \in 1..Len(pendentes[i]) :
                   LET origem == dataframe.linhas[i][j]
                       gravado == pendentes[i][j]
                   IN /\ pd_isna(origem) => gravado = Nulo
                      /\ origem.t = "str" => gravado = origem
                      /\ (origem.t = "float" /\ origem # NaN) =>
                            gravado = Texto(origem.v)
                      /\ origem.t = "numpy.int64" =>
                            gravado = Texto(Decimal(origem.v))

\* C10 as stated: a run ends either with the success message on stdout,
\* nothing on stderr and status 0, and then the import has committed; or
\* with one message on stderr, nothing on stdout and a non-zero status.
\* Nothing is printed before the end and importar_planilha is called at
\* most once.
C10_UmDesfechoPorExecucao ==
    /\ Terminou =>
          \/ /\ exit_code = 0
             /\ stdout = MensagemSucesso
             /\ stderr = <<>>
             /\ commit_feito
             /\ excecao = "none"
          \/ /\ exit_code \in {1, 2}
             /\ Len(stderr) = 1
             /\ stdout = <<>>
             /\ exit_code = 1 <=> excecao # "none"
    /\ ~Terminou => (exit_code = -1 /\ stdout = <<>> /\ stderr = <<>>)
    /\ tentativas <= 1

\* C10 amended: where both standard streams are open and take the text, a
\* run whose command line parse_args accepts ends either with the success
\* message on stdout, nothing on stderr and status 0, and then the import
\* has committed; or, after an exception, with one message on stderr,
\* nothing on stdout and status 1; and a run that parse_args ends has the
\* usage message on stderr and status 2 or the help on stdout and status
\* 0. Whatever the streams are: a run that parse_args ends calls no import
\* and leaves the database file alone; the success message is printed only
\* after the commit and with status 0; after an exception the status is
\* not 0 and the success message is not printed; a run that called the
\* import ends with status 0 only after the commit; at most one message is
\* printed in all, and none before the end; and importar_planilha is
\* called at most once.
C10_DesfechoPorLinhaDeComando ==
    /\ (Terminou /\ fluxos = "abertos" /\ tentativas = 1) =>
          \/ /\ exit_code = 0
             /\ stdout = MensagemSucesso
             /\ stderr = <<>>
             /\ commit_feito
             /\ excecao = "none"
          \/ /\ exit_code = 1
             /\ Len(stderr) = 1
             /\ stdout = <<>>
             /\ excecao # "none"
    /\ (Terminou /\ fluxos = "abertos" /\ tentativas = 0) =>
          \/ /\ exit_code = 2
             /\ stderr = <<"usage">>
             /\ stdout = <<>>
             /\ excecao = "none"
          \/ /\ exit_code = 0
             /\ stdout = <<"help">>
             /\ stderr = <<>>
             /\ excecao = "none"
    /\ (Terminou /\ tentativas = 0) =>
          /\ arquivo = NoFile
          /\ conexao = "none"
          /\ ~commit_feito
          /\ banco = banco_antes
          /\ stdout # MensagemSucesso
    /\ stdout = MensagemSucesso =>
          /\ commit_feito
          /\ exit_code = 0
          /\ excecao = "none"
    /\ (Terminou /\ excecao # "none") =>
          /\ exit_code # 0
          /\ stdout # MensagemSucesso
    /\ (Terminou /\ tentativas = 1 /\ exit_code = 0) =>
          /\ commit_feito
          /\ excecao = "none"
    /\ Len(stdout) + Len(stderr) <= 1
    /\ Terminou <=> fluxos # "nao usados"
    /\ ~Terminou => (exit_code = -1 /\ stdout = <<>> /\ stderr = <<>>)
    /\ tentativas <= 1

C10_Witness ==
    /\ Terminou
    /\ fluxos = "abertos"
    /\ exit_code = 1
    /\ excecao = "sqlite3.Error"
    /\ conexao = "open"
    /\ stderr = MensagemErro

====
